---- MODULE Spec2Model ----
(***************************************************************************)
(* Model of the authenticated real-time messaging subsystem of            *)
(* template_fastapi: the token checks of src/src/auth.py, the websocket    *)
(* connection manager of src/src/managers.py, the websocket endpoint of    *)
(* src/src/router_ws.py and the message helpers of src/src/crud.py.        *)
(*                                                                         *)
(* Two specifications share the module:                                    *)
(*   Spec      - websocket sessions running concurrently on one event loop *)
(*   SpecToken - the Token operations applied to one token                 *)
(*   SpecRequest - bearer extraction applied to one Authorization header   *)
(***************************************************************************)
EXTENDS Integers, Sequences, FiniteSets, TLC

\* ------------------------------------------------------------------ bounds
\* Number of websocket connections (one endpoint invocation each).
NChan == 2
\* Total number of frames the server reads, over all connections.
MaxFrames == 2
\* Largest number of space-separated parts of an Authorization header that
\* SpecRequest draws.
MaxParts == 3

Chan == 1..NChan

\* ------------------------------------------------------------- plain values
\* JSON null / Python None for a text or photo value.
Null == "<null>"
\* A claim or header that is not there at all.
Absent == "<absent>"

\* ------------------------------------------------------------------- enums
\* enums.py: UserRole member names and their values.
UserRoleNames == {"user", "administrator", "noone"}

UserRoleValue(name) ==
    CASE name = "user" -> "user"
      [] name = "administrator" -> "admin"
      [] name = "noone" -> ""

\* str() of a UserRole member: a plain Enum prints as "UserRole.<name>".
StrOfUserRole(name) ==
    CASE name = "user" -> "UserRole.user"
      [] name = "administrator" -> "UserRole.administrator"
      [] name = "noone" -> "UserRole.noone"

\* str(int) and int(str) on the ids the model uses.
StrOfInt(n) ==
    CASE n = 1 -> "1"
      [] n = 2 -> "2"
      [] n = 9 -> "9"

IntOfStr(s) ==
    CASE s = "1" -> 1
      [] s = "2" -> 2
      [] s = "9" -> 9

\* ------------------------------------------------------------------ tokens
\* A token string is modelled by what jwt.decode makes of it:
\*   status  "ok" (signature and structure verify), "badsig", "malformed"
\*   exp     the exp claim minus the current time, in seconds
\*   role, id, email   the claim, or Absent
\*   su      whether the is_superuser key is present
TokenStatus == {"ok", "badsig", "malformed"}
ExpOffsets == {-1, 0, 1}
RoleClaims == {Absent, "", "user", "admin", "administrator", "guest"}
IdClaims == {Absent, "", "1"}
EmailClaims == {Absent, "a@x.io"}

Tokens ==
    [status : TokenStatus, exp : ExpOffsets, role : RoleClaims,
     id : IdClaims \cup {"2", "9"}, email : EmailClaims, su : BOOLEAN]

\* The tokens SpecToken draws from.
TokenInputs == {t \in Tokens : t.id \in IdClaims}

\* The role argument of Token(token, role): one UserRole or a list of them.
RoleArgs ==
    {[isList |-> FALSE, roles |-> <<"user">>],
     [isList |-> FALSE, roles |-> <<"administrator">>],
     [isList |-> FALSE, roles |-> <<"noone">>],
     [isList |-> TRUE, roles |-> <<"user", "administrator">>],
     [isList |-> TRUE, roles |-> <<"administrator">>],
     [isList |-> TRUE, roles |-> <<>>]}

\* Mutant of decode_ok: a token expiring exactly now still decodes.
M_decode_ok_late(t) == t.status = "ok" /\ t.exp >= 0

\* auth.py Token._decode succeeds: jwt.decode verifies signature, structure
\* and exp (expired when exp <= now); any PyJWTError becomes HTTP 401.
decode_ok(t) == t.status = "ok" /\ t.exp > 0

\* Mutant of has_access: only the first role of a list is compared.
M_has_access_first_only(t, ra) ==
    IF ra.isList
    THEN Len(ra.roles) > 0 /\ t.role = UserRoleValue(ra.roles[1])
    ELSE t.role = UserRoleValue(ra.roles[1])

\* auth.py Token._has_access
has_access(t, ra) ==
    IF ra.isList
    THEN t.role \in {UserRoleValue(ra.roles[i]) : i \in DOMAIN ra.roles}
    ELSE t.role = UserRoleValue(ra.roles[1])

\* auth.py Token._not_access
not_access(t, ra) ==
    IF ra.isList
    THEN t.role \notin {UserRoleValue(ra.roles[i]) : i \in DOMAIN ra.roles}
    ELSE t.role /= UserRoleValue(ra.roles[1])

\* Mutant of check_permission: the 403 is never raised.
M_check_permission_never_forbids(t, ra, exclude) ==
    IF ~decode_ok(t) THEN "401" ELSE "pass"

\* auth.py Token.check_permission: "pass" (returns None), or the HTTP status
\* of the exception raised.
check_permission(t, ra, exclude) ==
    IF ~decode_ok(t) THEN "401"
    ELSE LET access_token == IF exclude THEN not_access(t, ra) ELSE has_access(t, ra)
         IN  IF access_token THEN "pass" ELSE "403"

\* auth.py Token.user_id: [st |-> "ok", val |-> int(id)] or the status raised.
user_id(t) ==
    IF ~decode_ok(t) THEN [st |-> "401", val |-> 0]
    ELSE IF t.id \notin {Absent, ""} THEN [st |-> "ok", val |-> IntOfStr(t.id)]
    ELSE [st |-> "400", val |-> 0]

\* auth.py Token.user_role
user_role(t) ==
    IF ~decode_ok(t) THEN "401"
    ELSE IF t.role \notin {Absent, ""} THEN "ok" ELSE "400"

\* auth.py Token.user_email
user_email(t) ==
    IF ~decode_ok(t) THEN "401"
    ELSE IF t.email \notin {Absent, ""} THEN "ok" ELSE "400"

\* Mutant of refresh_create_token: the is_superuser key is not required.
M_refresh_ignores_superuser(t) ==
    IF ~decode_ok(t) THEN "401"
    ELSE IF t.id \notin {Absent, ""} /\ t.role \notin {Absent, ""}
         THEN IF t.role \in UserRoleNames THEN "issued" ELSE "KeyError"
         ELSE "ValueError"

\* auth.py RefreshToken.create_token: UserRole[role] looks the role up by
\* member NAME and raises KeyError for anything else.
refresh_create_token(t) ==
    IF ~decode_ok(t) THEN "401"
    ELSE IF t.id \notin {Absent, ""} /\ t.role \notin {Absent, ""} /\ t.su
         THEN IF t.role \in UserRoleNames THEN "issued" ELSE "KeyError"
         ELSE "ValueError"

TokenOps == {"check", "check_exclude", "user_id", "user_role", "user_email", "refresh"}
Uncalled == "uncalled"

\* ------------------------------------------------------ upgrade requests
\* The Authorization header of the upgrade request: absent, or the string
\* given as its parts between single spaces (str.split(" ")); the empty
\* string is the one part "".
HdrAbsent == [present |-> FALSE, parts |-> <<>>]
Hdr(parts) == [present |-> TRUE, parts |-> parts]

\* What jwt.decode makes of each token string the model sends.
GoodToken(role, id) ==
    [status |-> "ok", exp |-> 1, role |-> role, id |-> id,
     email |-> "a@x.io", su |-> TRUE]

\* Roles of stored users that log in (models.py User.role).
LoginRoles == {"user", "administrator"}

\* auth.py check_authenticate, for correct credentials of the stored user
\* `user` with role `role`: what jwt.decode makes of the access token
\* issued.  The payload is CreateJwt(id=str(user.id), role=str(user.role),
\* is_superuser=..., email=...) and exp is now + access_token_expires.
check_authenticate(user, role) ==
    [status |-> "ok", exp |-> 1, role |-> StrOfUserRole(role),
     id |-> StrOfInt(user), email |-> "a@x.io", su |-> TRUE]

TokenNames ==
    {"tU1", "tA2", "tSig", "tBad", "tExp", "tNoRole", "tGuest", "tNoId", "tGhost"}

TokenOfString(s) ==
    CASE s = "tU1" -> GoodToken("user", "1")
      [] s = "tA2" -> GoodToken("admin", "2")
      [] s = "tSig" -> [GoodToken("user", "1") EXCEPT !.status = "badsig"]
      [] s = "tExp" -> [GoodToken("user", "1") EXCEPT !.exp = 0]
      [] s = "tNoRole" -> GoodToken(Absent, "1")
      [] s = "tGuest" -> GoodToken("guest", "1")
      [] s = "tNoId" -> GoodToken("user", Absent)
      [] s = "tGhost" -> GoodToken("user", "9")
      [] OTHER -> [GoodToken("user", "1") EXCEPT !.status = "malformed"]

Headers ==
    {HdrAbsent, Hdr(<<"">>), Hdr(<<"Bearer">>), Hdr(<<"Basic", "tU1">>),
     Hdr(<<"Bearer", "tU1", "x">>)}
    \cup {Hdr(<<"Bearer", n>>) : n \in TokenNames}

\* Rows of the user table (models.py User); the websocket paths never change it.
Users == {1, 2}

\* The headers SpecRequest draws: absent, or any string of one to MaxParts
\* parts taken from HeaderWords.
HeaderWords == {"", "Bearer", "bearer", "Basic", "tU1"}

HeaderInputs ==
    {HdrAbsent} \cup
    {Hdr(parts) : parts \in UNION {[1..n -> HeaderWords] : n \in 1..MaxParts}}

\* Mutant of get_token_from_request: the scheme is not compared.
M_get_token_any_scheme(h) ==
    IF ~h.present \/ h.parts = <<"">> THEN [st |-> "401", token |-> ""]
    ELSE IF Len(h.parts) = 2 THEN [st |-> "ok", token |-> h.parts[2]]
    ELSE [st |-> "401", token |-> ""]

\* auth.py _get_token_from_request
get_token_from_request(h) ==
    IF ~h.present \/ h.parts = <<"">> THEN [st |-> "401", token |-> ""]
    ELSE IF h.parts[1] /= "Bearer" THEN [st |-> "401", token |-> ""]
    ELSE IF Len(h.parts) = 2 THEN [st |-> "ok", token |-> h.parts[2]]
    ELSE [st |-> "401", token |-> ""]

\* crud.py get_user_model by id: scalar_one() raises NoResultFound for an
\* unknown id, which handle_error turns into HTTP 400.
get_user_model(user_param) ==
    IF user_param \in Users THEN [st |-> "ok", id |-> user_param]
    ELSE [st |-> "400", id |-> 0]

WsRoles == [isList |-> TRUE, roles |-> <<"user", "administrator">>]

\* auth.py get_user_from_request: the dependency that resolves `user`.
get_user_from_request(h) ==
    LET got == get_token_from_request(h)
        token == TokenOfString(got.token)
        perm == check_permission(token, WsRoles, FALSE)
        uid == user_id(token)
    IN  IF got.st /= "ok" THEN [st |-> got.st, id |-> 0]
        ELSE IF perm /= "pass" THEN [st |-> perm, id |-> 0]
        ELSE IF uid.st /= "ok" THEN [st |-> uid.st, id |-> 0]
        ELSE get_user_model(uid.val)

\* ------------------------------------------------------ connection manager
\* managers.py WsConnectionManager.active_connections is a dict from the
\* sender id (a string) to the 1-tuple (websocket,): here a function whose
\* DOMAIN is the set of keys.
EmptyDict == [k \in {} |-> <<>>]

\* managers.py WsConnectionManager.is_connected
is_connected(ac, user) == user \in DOMAIN ac /\ Len(ac[user]) > 0

\* Mutant of connect: an earlier entry of the subject is kept.
M_connect_keeps_earlier(ac, websocket, sender_id) ==
    IF sender_id \in DOMAIN ac THEN ac
    ELSE [k \in DOMAIN ac \cup {sender_id} |->
             IF k = sender_id THEN <<websocket>> ELSE ac[k]]

\* managers.py WsConnectionManager.connect, after websocket.accept() returned
connect(ac, websocket, sender_id) ==
    [k \in DOMAIN ac \cup {sender_id} |->
        IF k = sender_id THEN <<websocket>> ELSE ac[k]]

\* managers.py WsConnectionManager.disconnect: the websocket argument is
\* not looked at.
disconnect(ac, websocket, sender_id) ==
    IF sender_id \notin DOMAIN ac THEN ac
    ELSE [k \in DOMAIN ac \ {sender_id} |-> ac[k]]

\* Python truthiness of an optional string: None and "" are falsy.
Truthy(s) == s \notin {Null, ""}

\* Python `a or b` on optional strings.
PyOr(a, b) == IF Truthy(a) THEN a ELSE b

\* managers.py WsConnectionManager.send_message: the text handed to
\* websocket.send_text.
send_message_text(m) ==
    IF m.kind = "create" THEN PyOr(m.text, m.photo) ELSE m.text

\* ------------------------------------------------------------------ frames
\* A text frame is either not JSON at all (json = FALSE) or JSON whose
\* "message" object has the keys `keys` with the values below.
FieldNames == {"id", "text", "photo", "sender_id", "receiver_id"}
CreateKeys == {"text", "photo", "sender_id", "receiver_id"}

Frame(json, keys, id, text, photo, sender_id, receiver_id) ==
    [json |-> json, keys |-> keys, id |-> id, text |-> text, photo |-> photo,
     sender_id |-> sender_id, receiver_id |-> receiver_id]

GarbageFrame == Frame(FALSE, {}, 0, Null, Null, 0, 0)
EmptyFrame == Frame(TRUE, {}, 0, Null, Null, 0, 0)
CreateFrame(text, photo, sender_id, receiver_id) ==
    Frame(TRUE, CreateKeys, 0, text, photo, sender_id, receiver_id)
UpdateFrame(id, text) == Frame(TRUE, {"id", "text"}, id, text, Null, 0, 0)
DeleteFrame(id) == Frame(TRUE, {"id"}, id, Null, Null, 0, 0)

\* Stored message ids: 1 is in the table at the start, 99 never is.
Frames ==
    {GarbageFrame, EmptyFrame}
    \cup {CreateFrame("hi", Null, s, 2) : s \in Users}
    \cup {CreateFrame(t, p, 1, 2) : t \in {"hi", Null}, p \in {Null, "pic"}}
    \cup {CreateFrame("", Null, 1, 2)}
    \cup {UpdateFrame(i, "yo") : i \in {1, 99}}
    \cup {DeleteFrame(i) : i \in {1, 99}}

\* schemas.py UpdateMessage: id and a non-null text
ValidUpdate(f) == {"id", "text"} \subseteq f.keys /\ f.text /= Null

\* schemas.py BaseMessage fields: all four required, text and photo nullable
ValidCreateFields(f) == CreateKeys \subseteq f.keys

\* Mutant of check_passwords_match_raises: rejects neither instead of both.
M_rejects_neither_only(f) == f.text = Null /\ f.photo = Null

\* schemas.py BaseMessage.check_passwords_match raises HTTPException(400)
check_passwords_match_raises(f) == f.text /= Null /\ f.photo /= Null

\* schemas.py DeleteMessage: an id
ValidDelete(f) == "id" \in f.keys

NoMessage ==
    [kind |-> "none", id |-> 0, text |-> Null, photo |-> Null,
     sender_id |-> 0, receiver_id |-> 0]

Message(kind, f) ==
    [kind |-> kind, id |-> f.id, text |-> f.text, photo |-> f.photo,
     sender_id |-> f.sender_id, receiver_id |-> f.receiver_id]

\* router_ws.py lines 88-89: json.loads, then WSMessageRequest.model_validate
\* over the union UpdateMessage | CreateMessage | DeleteMessage.  The frames
\* drawn never carry an id together with the create fields, so the union
\* has one possible member.  st is "ok", or the exception that leaves the
\* call: JSONDecodeError, ValidationError, or the HTTPException of the
\* validator (pydantic does not wrap it).
model_validate(f) ==
    IF ~f.json THEN [st |-> "JSONDecodeError", msg |-> NoMessage]
    ELSE IF ValidUpdate(f) THEN [st |-> "ok", msg |-> Message("update", f)]
    ELSE IF ValidCreateFields(f)
         THEN IF check_passwords_match_raises(f)
              THEN [st |-> "HTTPException", msg |-> NoMessage]
              ELSE [st |-> "ok", msg |-> Message("create", f)]
    ELSE IF ValidDelete(f) THEN [st |-> "ok", msg |-> Message("delete", f)]
    ELSE [st |-> "ValidationError", msg |-> NoMessage]

\* Mutant of set_receiver_id: the envelope's receiver_id is kept.
M_set_receiver_id_keeps_envelope(m, receiver) ==
    IF m.kind = "create"
    THEN [st |-> "ok", msg |-> m]
    ELSE [st |-> "ValueError", msg |-> m]

\* router_ws.py line 90: message.message.receiver_id = receiver.  Only
\* CreateMessage has the field; assigning an unknown attribute on a
\* pydantic model raises ValueError.
set_receiver_id(m, receiver) ==
    IF m.kind = "create"
    THEN [st |-> "ok", msg |-> [m EXCEPT !.receiver_id = receiver]]
    ELSE [st |-> "ValueError", msg |-> m]

\* ---------------------------------------------------------------- storage
\* models.py Message rows; text is NOT NULL (nullable=False).
Row(id, text, photo, sender, receiver) ==
    [id |-> id, text |-> text, photo |-> photo, sender |-> sender, receiver |-> receiver]

\* `x or None`
OrNone(x) == IF Truthy(x) THEN x ELSE Null

\* crud.py create_message_model lines 161-166: the row handed to db.add
create_message_row(body, id) ==
    Row(id, OrNone(body.text), OrNone(body.photo), body.sender_id, body.receiver_id)

\* models.py Message: text NOT NULL and CHECK NOT(photo IS NULL AND text IS NULL)
row_satisfies_constraints(r) ==
    r.text /= Null /\ ~(r.photo = Null /\ r.text = Null)

\* An AsyncSession's open transaction: rows inserted (flushed) and ids deleted,
\* not yet committed.
EmptyTx == [ins |-> {}, del |-> {}]

\* The rows a session sees: committed rows and its own uncommitted work.
Visible(db, t) == {r \in db \cup t.ins : r.id \notin t.del}

\* crud.py update_message_model lines 211-218: UPDATE ... WHERE id, then commit
update_commit(db, t, m) ==
    {IF r.id = m.id THEN [r EXCEPT !.text = m.text] ELSE r : r \in Visible(db, t)}

\* ------------------------------------------------------------------- state
VARIABLES
    pc,                  \* each endpoint invocation's position
    hdr,                 \* the Authorization header of its upgrade request
    uid,                 \* its local user_id = str(user.id)
    recv,                \* its path parameter `receiver`
    accepted,            \* whether manager.connect ran on it: the handshake
                         \* is accepted and its entry was written
    active_connections,  \* manager.active_connections
    data,                \* the frame it read last (local `data`)
    cur,                 \* its local message.message while a frame is handled
    sent,                \* the texts written to its websocket, in order
    nread,               \* frames read so far, over all connections
    tx,                  \* its AsyncSession's uncommitted work
    committed,           \* committed rows of the message table
    nextId,              \* next value of the message id sequence
    unregs,              \* history: how often it ran manager.disconnect
    cause,               \* history: the exception that ended it
    tk,                  \* SpecToken: the token under test
    roleArg,             \* SpecToken: the role argument of Token(token, role)
    tres,                \* SpecToken: outcome of each Token operation called
    hreq,                \* SpecRequest: the Authorization header under test
    hres                 \* SpecRequest: outcome of _get_token_from_request

tokenVars == <<tk, roleArg, tres>>

wsVars ==
    <<pc, hdr, uid, recv, accepted, active_connections, data, cur, sent, nread,
      tx, committed, nextId, unregs, cause>>

reqVars == <<hreq, hres>>

vars == <<wsVars, tokenVars, reqVars>>

\* The message table holds one committed row when the server starts.
InitialRows == {Row(1, "old", Null, 1, 2)}

InitWs ==
    /\ pc = [c \in Chan |-> "idle"]
    /\ hdr = [c \in Chan |-> HdrAbsent]
    /\ uid = [c \in Chan |-> ""]
    /\ recv = [c \in Chan |-> 0]
    /\ accepted = [c \in Chan |-> FALSE]
    /\ active_connections = EmptyDict
    /\ data = [c \in Chan |-> GarbageFrame]
    /\ cur = [c \in Chan |-> NoMessage]
    /\ sent = [c \in Chan |-> <<>>]
    /\ nread = 0
    /\ tx = [c \in Chan |-> EmptyTx]
    /\ committed = InitialRows
    /\ nextId = 2
    /\ unregs = [c \in Chan |-> 0]
    /\ cause = [c \in Chan |-> "none"]

\* No request handled yet.
NoExtraction == [st |-> Uncalled, token |-> ""]

InitReq ==
    /\ hreq = HdrAbsent
    /\ hres = NoExtraction

Init ==
    /\ InitWs
    /\ tk = GoodToken("user", "1")
    /\ roleArg = WsRoles
    /\ tres = [op \in TokenOps |-> Uncalled]
    /\ InitReq

\* An exception other than WebSocketDisconnect leaves websocket_endpoint:
\* nothing in the endpoint handles it; its locals are gone and the
\* get_async_session dependency closes the AsyncSession, which discards the
\* uncommitted work.  `why` names the exception and where it was raised.
Crash(c, why) ==
    /\ pc' = [pc EXCEPT ![c] = "crashed"]
    /\ cause' = [cause EXCEPT ![c] = why]
    /\ tx' = [tx EXCEPT ![c] = EmptyTx]
    /\ cur' = [cur EXCEPT ![c] = NoMessage]
    /\ UNCHANGED <<active_connections, unregs>>

\* router_ws.py lines 99-100: the except WebSocketDisconnect branch.
Cleanup(c) ==
    /\ active_connections' = disconnect(active_connections, c, uid[c])
    /\ unregs' = [unregs EXCEPT ![c] = @ + 1]
    /\ pc' = [pc EXCEPT ![c] = "closed"]
    /\ cause' = [cause EXCEPT ![c] = "WebSocketDisconnect"]
    /\ tx' = [tx EXCEPT ![c] = EmptyTx]
    /\ cur' = [cur EXCEPT ![c] = NoMessage]

\* router_ws.py lines 74-83: the upgrade request arrives; the dependencies
\* resolve `user` (or raise, and the endpoint body never runs), then the
\* body reads manager.is_connected.  Connections are numbered in the order
\* their requests arrive, and a user opens the chat with the other user.
Open(c, h, receiver) ==
    /\ pc[c] = "idle"
    /\ \A d \in Chan : d < c => pc[d] /= "idle"
    /\ hdr' = [hdr EXCEPT ![c] = h]
    /\ LET user == get_user_from_request(h)
       IN  IF user.st /= "ok"
           THEN /\ pc' = [pc EXCEPT ![c] = "rejected"]
                /\ cause' = [cause EXCEPT ![c] = user.st]
                /\ UNCHANGED <<uid, recv>>
           ELSE /\ receiver /= user.id
                /\ uid' = [uid EXCEPT ![c] = StrOfInt(user.id)]
                /\ recv' = [recv EXCEPT ![c] = receiver]
                /\ pc' = [pc EXCEPT ![c] =
                        IF ~is_connected(active_connections, StrOfInt(user.id))
                        THEN "accepting" ELSE "receiving"]
                /\ UNCHANGED cause
    /\ UNCHANGED <<accepted, active_connections, data, cur, sent, nread, tx,
                   committed, nextId, unregs, tokenVars, reqVars>>

\* managers.py lines 25-27: `await websocket.accept()` returns and the
\* entry is written.
Accept(c) ==
    /\ pc[c] = "accepting"
    /\ accepted' = [accepted EXCEPT ![c] = TRUE]
    /\ active_connections' = connect(active_connections, c, uid[c])
    /\ pc' = [pc EXCEPT ![c] = "receiving"]
    /\ UNCHANGED <<hdr, uid, recv, data, cur, sent, nread, tx, committed, nextId,
                   unregs, cause, tokenVars, reqVars>>

\* router_ws.py line 87 on a websocket nobody accepted: Starlette's
\* receive_text raises RuntimeError.
ReceiveUnaccepted(c) ==
    /\ pc[c] = "receiving"
    /\ ~accepted[c]
    /\ Crash(c, "RuntimeError: receive")
    /\ UNCHANGED <<hdr, uid, recv, accepted, data, sent, nread, committed, nextId,
                   tokenVars, reqVars>>

\* router_ws.py lines 87, 99-100: the client went away; receive_text raises
\* WebSocketDisconnect.
ClientDisconnect(c) ==
    /\ pc[c] = "receiving"
    /\ accepted[c]
    /\ Cleanup(c)
    /\ UNCHANGED <<hdr, uid, recv, accepted, data, sent, nread, committed, nextId,
                   tokenVars, reqVars>>

\* router_ws.py lines 87-90: one frame is read, parsed, validated, and the
\* path's receiver is assigned to it.
ReceiveFrame(c, f) ==
    /\ pc[c] = "receiving"
    /\ accepted[c]
    /\ nread < MaxFrames
    /\ nread' = nread + 1
    /\ data' = [data EXCEPT ![c] = f]
    /\ LET v == model_validate(f)
           a == set_receiver_id(v.msg, recv[c])
       IN  IF v.st /= "ok"
           THEN Crash(c, v.st)
           ELSE IF a.st /= "ok"
           THEN Crash(c, a.st)
           ELSE /\ pc' = [pc EXCEPT ![c] = "persist"]
                /\ cur' = [cur EXCEPT ![c] = a.msg]
                /\ UNCHANGED <<cause, tx, active_connections, unregs>>
    /\ UNCHANGED <<hdr, uid, recv, accepted, sent, committed, nextId, tokenVars, reqVars>>

\* Mutant of PersistCreate: the endpoint goes on to send_message although
\* the flush failed.
M_PersistCreate_sends_on_failure(c, fault) ==
    LET stmt == create_message_row(cur[c], nextId)
    IN  /\ nextId' = nextId + 1
        /\ tx' = IF fault \/ ~row_satisfies_constraints(stmt)
                 THEN [tx EXCEPT ![c] = EmptyTx]
                 ELSE [tx EXCEPT ![c].ins = @ \cup {stmt}]
        /\ pc' = [pc EXCEPT ![c] = "send"]
        /\ UNCHANGED <<cause, cur, active_connections, unregs, committed>>

\* crud.py create_message_model: db.add, then flush.  The INSERT fails on a
\* constraint of the row itself, or for a reason outside the model (`fault`:
\* a foreign key, the unset chat_id, the connection); then rollback and
\* handle_error raise HTTPException(400).
PersistCreate(c, fault) ==
    LET stmt == create_message_row(cur[c], nextId)
    IN  /\ nextId' = nextId + 1
        /\ IF fault \/ ~row_satisfies_constraints(stmt)
           THEN Crash(c, "HTTPException: crud")
           ELSE /\ tx' = [tx EXCEPT ![c].ins = @ \cup {stmt}]
                /\ pc' = [pc EXCEPT ![c] = "send"]
                /\ UNCHANGED <<cause, cur, active_connections, unregs>>
        /\ UNCHANGED committed

\* crud.py delete_message_model: DELETE ... WHERE id inside the session's
\* transaction; deleting no row is not an error.
PersistDelete(c, fault) ==
    /\ IF fault
       THEN Crash(c, "HTTPException: crud")
       ELSE /\ tx' = [tx EXCEPT ![c].del = @ \cup {cur[c].id}]
            /\ pc' = [pc EXCEPT ![c] = "receiving"]
            /\ UNCHANGED <<cause, cur, active_connections, unregs>>
    /\ UNCHANGED <<committed, nextId>>

\* crud.py update_message_model: UPDATE without RETURNING, commit, then
\* response.scalar_one() on a result that returns no rows raises
\* ResourceClosedError (an SQLAlchemyError): rollback, HTTPException(400).
PersistUpdate(c, fault) ==
    /\ committed' = IF fault THEN committed ELSE update_commit(committed, tx[c], cur[c])
    /\ Crash(c, "HTTPException: crud")
    /\ UNCHANGED nextId

\* router_ws.py lines 91-97: the isinstance dispatch to the crud helper.
\* Line 90 lets only a CreateMessage reach it.
Persist(c, fault) ==
    /\ pc[c] = "persist"
    /\ IF cur[c].kind = "create" THEN PersistCreate(c, fault)
       ELSE IF cur[c].kind = "delete" THEN PersistDelete(c, fault)
       ELSE PersistUpdate(c, fault)
    /\ UNCHANGED <<hdr, uid, recv, accepted, data, sent, nread, tokenVars, reqVars>>

\* Mutant of Send: the loop goes back to receive_text with the frame still
\* in dispatch.
M_Send_keeps_message(c) ==
    /\ pc[c] = "send"
    /\ sent' = [sent EXCEPT ![c] = Append(@, send_message_text(cur[c]))]
    /\ pc' = [pc EXCEPT ![c] = "receiving"]
    /\ UNCHANGED <<hdr, uid, recv, accepted, active_connections, data, cur, nread,
                   tx, committed, nextId, unregs, cause, tokenVars, reqVars>>

\* router_ws.py lines 93/98 and managers.py lines 34-41: the text is written
\* to the session's own websocket, and the loop goes back to receive_text.
Send(c) ==
    /\ pc[c] = "send"
    /\ sent' = [sent EXCEPT ![c] = Append(@, send_message_text(cur[c]))]
    /\ cur' = [cur EXCEPT ![c] = NoMessage]
    /\ pc' = [pc EXCEPT ![c] = "receiving"]
    /\ UNCHANGED <<hdr, uid, recv, accepted, active_connections, data, nread, tx,
                   committed, nextId, unregs, cause, tokenVars, reqVars>>

\* The client is gone when send_text runs: Starlette raises
\* WebSocketDisconnect (handled at line 99) or, in older releases, lets the
\* server's own error through.
SendFails(c, handled) ==
    /\ pc[c] = "send"
    /\ IF handled THEN Cleanup(c) ELSE Crash(c, "RuntimeError: send")
    /\ UNCHANGED <<hdr, uid, recv, accepted, data, sent, nread, committed, nextId,
                   tokenVars, reqVars>>

Next ==
    \/ \E c \in Chan, h \in Headers, r \in Users : Open(c, h, r)
    \/ \E c \in Chan : Accept(c)
    \/ \E c \in Chan : ReceiveUnaccepted(c)
    \/ \E c \in Chan : ClientDisconnect(c)
    \/ \E c \in Chan, f \in Frames : ReceiveFrame(c, f)
    \/ \E c \in Chan, fault \in BOOLEAN : Persist(c, fault)
    \/ \E c \in Chan : Send(c)
    \/ \E c \in Chan, handled \in BOOLEAN : SendFails(c, handled)

Spec == Init /\ [][Next]_vars

\* ----------------------------------------------------- Token operations
InitToken ==
    /\ InitWs
    /\ tk \in TokenInputs
    /\ roleArg \in RoleArgs
    /\ tres = [op \in TokenOps |-> Uncalled]
    /\ InitReq

CallCheckPermission(exclude) ==
    /\ tres' = [tres EXCEPT ![IF exclude THEN "check_exclude" ELSE "check"] =
                    check_permission(tk, roleArg, exclude)]
    /\ UNCHANGED <<tk, roleArg, wsVars, reqVars>>

CallUserId ==
    /\ tres' = [tres EXCEPT !["user_id"] = user_id(tk).st]
    /\ UNCHANGED <<tk, roleArg, wsVars, reqVars>>

CallUserRole ==
    /\ tres' = [tres EXCEPT !["user_role"] = user_role(tk)]
    /\ UNCHANGED <<tk, roleArg, wsVars, reqVars>>

CallUserEmail ==
    /\ tres' = [tres EXCEPT !["user_email"] = user_email(tk)]
    /\ UNCHANGED <<tk, roleArg, wsVars, reqVars>>

CallRefresh ==
    /\ tres' = [tres EXCEPT !["refresh"] = refresh_create_token(tk)]
    /\ UNCHANGED <<tk, roleArg, wsVars, reqVars>>

\* POST /login with correct credentials: the token under test becomes the
\* access token issued, on which no operation has been called yet.
Login(user, role) ==
    /\ tk' = check_authenticate(user, role)
    /\ tres' = [op \in TokenOps |-> Uncalled]
    /\ UNCHANGED <<roleArg, wsVars, reqVars>>

NextToken ==
    \/ \E exclude \in BOOLEAN : CallCheckPermission(exclude)
    \/ \E user \in Users, role \in LoginRoles : Login(user, role)
    \/ CallUserId
    \/ CallUserRole
    \/ CallUserEmail
    \/ CallRefresh

SpecToken == InitToken /\ [][NextToken]_vars

\* ------------------------------------------------------ bearer extraction
InitRequest ==
    /\ InitWs
    /\ tk = GoodToken("user", "1")
    /\ roleArg = WsRoles
    /\ tres = [op \in TokenOps |-> Uncalled]
    /\ hreq \in HeaderInputs
    /\ hres = NoExtraction

CallGetTokenFromRequest ==
    /\ hres' = get_token_from_request(hreq)
    /\ UNCHANGED <<hreq, wsVars, tokenVars>>

NextRequest == CallGetTokenFromRequest

SpecRequest == InitRequest /\ [][NextRequest]_vars

\* ------------------------------------------------------------- properties
Terminated(c) == pc[c] \in {"closed", "crashed"}

\* The entry of c's subject names c's own websocket.
HoldsEntry(ac, c) == uid[c] \in DOMAIN ac /\ ac[uid[c]] = <<c>>

\* C1: every session that registered its subject and has terminated, by
\* whatever edge, ran the unregister step exactly once, and the manager
\* holds no entry for its subject and channel.
C1_CleanupOnEveryExit ==
    \A c \in Chan :
        accepted[c] /\ Terminated(c) =>
            unregs[c] = 1 /\ ~HoldsEntry(active_connections, c)

\* The exceptions a frame's validation or persistence raises.
PerFrameFailures == {"ValidationError", "HTTPException", "HTTPException: crud"}

\* C2: a per-frame failure (envelope validation, a failure raised by the
\* crud helpers) never ends the receive loop.
C2_FrameFailureKeepsLoop ==
    \A c \in Chan : pc[c] = "crashed" => cause[c] \notin PerFrameFailures

\* C3: unregistering is a compare-and-remove: a disconnect by a session
\* whose channel is not the one registered for its subject leaves
\* active_connections unchanged.
C3_CompareAndRemove ==
    [][\A c \in Chan :
          unregs'[c] = unregs[c] + 1 /\ ~HoldsEntry(active_connections, c)
              => active_connections' = active_connections]_vars

\* The upgrade requests that must be refused.
C4_AuthFails(h) ==
    \/ ~h.present
    \/ h.parts = <<"">>
    \/ Len(h.parts) /= 2
    \/ h.parts[1] /= "Bearer"
    \/ LET t == TokenOfString(h.parts[2])
       IN  \/ t.status /= "ok"
           \/ t.exp <= 0
           \/ t.role \notin {"user", "admin"}
           \/ t.id \in {Absent, ""}
           \/ IntOfStr(t.id) \notin Users

\* C4: when authentication or authorization of the upgrade request fails,
\* the endpoint body never runs: the session is rejected, its handshake is
\* not accepted, and it neither wrote nor removed an entry of the manager.
C4_NoBodyOnAuthFailure ==
    \A c \in Chan :
        pc[c] /= "idle" /\ C4_AuthFails(hdr[c]) =>
            /\ pc[c] = "rejected"
            /\ ~accepted[c]
            /\ unregs[c] = 0
            /\ \A k \in DOMAIN active_connections : active_connections[k] /= <<c>>

C4_Witness ==
    \E c, d \in Chan :
        /\ pc[c] = "rejected" /\ hdr[c] = Hdr(<<"Bearer", "tGuest">>)
        /\ accepted[d] /\ HoldsEntry(active_connections, d)

\* The token under test verifies and has not expired.
C5_Decodable == tk.status = "ok" /\ tk.exp > 0

C5_Allowed == {UserRoleValue(roleArg.roles[i]) : i \in DOMAIN roleArg.roles}

\* C5: for a decodable token, check_permission(exclude=False) passes iff the
\* role claim is in the allowed set, and check_permission(exclude=True)
\* passes exactly when check_permission(exclude=False) raises 403.
C5_PermissionGate ==
    C5_Decodable =>
        /\ tres["check"] /= Uncalled =>
              (tres["check"] = "pass" <=> tk.role \in C5_Allowed)
        /\ tres["check"] /= Uncalled /\ tres["check_exclude"] /= Uncalled =>
              (tres["check_exclude"] = "pass" <=> tres["check"] = "403")

C5_Witness ==
    /\ C5_Decodable
    /\ roleArg = [isList |-> TRUE, roles |-> <<"user", "administrator">>]
    /\ tk.role = "admin"
    /\ tres["check"] = "pass"
    /\ tres["check_exclude"] = "403"

\* C6: for a token whose signature or structure is invalid, or whose expiry
\* is at or before the current time, every Token operation ends in 401.
C6_FailsClosed ==
    (tk.status /= "ok" \/ tk.exp <= 0) =>
        \A op \in TokenOps : tres[op] \in {Uncalled, "401"}

C6_Witness ==
    /\ tk.status = "ok" /\ tk.exp = 0
    /\ \A op \in TokenOps : tres[op] = "401"

\* A Create frame with a text and a null photo.
IsTextCreate(f) ==
    f.json /\ f.keys = CreateKeys /\ f.text /= Null /\ f.photo = Null

\* C7: every Create frame with text non-null and photo null that a session
\* reads gets its row persisted (sender = the envelope's sender_id, receiver
\* = the receiver in effect, text = the envelope's text) and its text echoed
\* once on the session's channel.  "Persisted" is read in its weakest sense
\* here, a row flushed into the session's transaction; no websocket path
\* commits it.
C7_EveryTextCreatePersistsAndEchoes ==
    [][\A c \in Chan :
          pc[c] = "persist" /\ pc'[c] /= "persist" /\ IsTextCreate(data[c]) =>
              /\ pc'[c] = "send"
              /\ \E r \in tx'[c].ins \ tx[c].ins :
                    /\ r.sender = data[c].sender_id
                    /\ r.receiver = recv[c]
                    /\ r.text = data[c].text]_vars

\* Ids of the rows session c can see.
VisibleIds(c) == {r.id : r \in Visible(committed, tx[c])}

\* C8: a Delete frame whose id matches no stored message is reported and
\* leaves the connection open for the next frame.
C8_DeleteMissingKeepsOpen ==
    \A c \in Chan :
        data[c].json /\ data[c].keys = {"id"} /\ data[c].id \notin VisibleIds(c)
            => pc[c] /= "crashed"

\* C9: once an Update frame {id, text} whose id matches a stored message is
\* handled, the stored row has the frame's text and the text was written to
\* the session's own channel.
C9_UpdateStoresAndEchoes ==
    \A c \in Chan :
        /\ data[c].json /\ data[c].keys = {"id", "text"}
        /\ data[c].id \in {r.id : r \in InitialRows}
        /\ pc[c] \in {"receiving", "closed", "crashed"}
        => /\ \E r \in committed : r.id = data[c].id /\ r.text = data[c].text
           /\ Len(sent[c]) > 0 /\ sent[c][Len(sent[c])] = data[c].text

\* A Create frame with a text and a photo.
IsCreateBoth(f) ==
    f.json /\ CreateKeys \subseteq f.keys /\ f.text /= Null /\ f.photo /= Null

\* C10: a Create frame with both text and photo non-null is rejected by
\* envelope validation: reading it makes no create_message_model call
\* (no id drawn, no row added, nothing committed) and writes no echo, and
\* the session does nothing afterwards.
C10_BothRejectedBeforePersistence ==
    [][\A c \in Chan :
          /\ ( /\ pc[c] = "receiving" /\ nread' = nread + 1 /\ pc'[c] /= "receiving"
               /\ IsCreateBoth(data'[c])
               => /\ pc'[c] = "crashed"
                  /\ nextId' = nextId
                  /\ tx'[c].ins = {}
                  /\ committed' = committed
                  /\ sent' = sent )
          /\ ( pc[c] = "crashed" => pc'[c] = "crashed" /\ sent'[c] = sent[c] )]_vars

C10_Witness ==
    \E c \in Chan :
        /\ pc[c] = "crashed"
        /\ data[c] = CreateFrame("hi", "pic", 1, 2)
        /\ cause[c] = "HTTPException"
        /\ sent[c] = <<"hi">>

\* A Create frame with neither a text nor a photo.
IsCreateNeither(f) ==
    f.json /\ CreateKeys \subseteq f.keys /\ f.text = Null /\ f.photo = Null

\* C11: a Create frame with text and photo both null is rejected by
\* envelope validation before persistence is attempted: reading it never
\* leads to the create_message_model call, and the session stays in its
\* receive loop.
C11_NeitherRejectedBeforePersistence ==
    [][\A c \in Chan :
          /\ pc[c] = "receiving" /\ nread' = nread + 1
          /\ IsCreateNeither(data'[c])
          => pc'[c] = "receiving" /\ nextId' = nextId]_vars

\* The token under test lacks a field the refresh operation requires.
C12_LacksRequiredField ==
    tk.id \in {Absent, ""} \/ tk.role \in {Absent, ""} \/ ~tk.su

\* C12: for a validly signed, unexpired token that lacks (or has an empty)
\* id, lacks (or has an empty) role, or lacks the is_superuser key,
\* RefreshToken.create_token raises the decryption-result ValueError and
\* issues no token.
C12_RefreshRequiresFields ==
    C5_Decodable /\ C12_LacksRequiredField /\ tres["refresh"] /= Uncalled
        => tres["refresh"] = "ValueError"

C12_Witness ==
    /\ C5_Decodable
    /\ tk.id = "1" /\ tk.role = Absent /\ tk.su
    /\ tres["refresh"] = "ValueError"

\* C13: bearer extraction returns the token iff the Authorization header is
\* present and non-empty, its first space-separated part is exactly
\* "Bearer" and it has exactly two parts; in every other case it raises 401
\* and returns no token.
C13_BearerExtraction ==
    hres.st /= Uncalled =>
        IF /\ hreq.present /\ hreq.parts /= <<"">>
           /\ Len(hreq.parts) = 2 /\ hreq.parts[1] = "Bearer"
        THEN hres = [st |-> "ok", token |-> hreq.parts[2]]
        ELSE hres = [st |-> "401", token |-> ""]

C13_Witness ==
    /\ hreq = Hdr(<<"Bearer", "tU1">>)
    /\ hres = [st |-> "ok", token |-> "tU1"]

\* Every entry of the manager is one channel, and is_connected is true
\* exactly for the subjects that have an entry.
C14_OneChannelPerSubject(ac) ==
    /\ \A k \in DOMAIN ac : Len(ac[k]) = 1 /\ ac[k][1] \in Chan
    /\ \A s \in {StrOfInt(u) : u \in Users} :
           is_connected(ac, s) <=> s \in DOMAIN ac

\* C14: after any sequence of connect and disconnect calls each subject maps
\* to at most one channel and is_connected(s) holds exactly when s has an
\* entry; a connect by session c makes c the channel registered for its
\* subject, replacing any earlier one, and leaves the other subjects alone.
C14_RegistryInvariants ==
    /\ C14_OneChannelPerSubject(active_connections)
    /\ [][/\ C14_OneChannelPerSubject(active_connections')
          /\ \A c \in Chan :
                accepted'[c] /\ ~accepted[c] =>
                    /\ HoldsEntry(active_connections', c)
                    /\ DOMAIN active_connections' =
                          DOMAIN active_connections \cup {uid[c]}
                    /\ \A k \in DOMAIN active_connections \ {uid[c]} :
                          active_connections'[k] = active_connections[k]]_vars

\* Two sessions of one subject both connected; the later one holds the entry.
C14_Witness ==
    /\ accepted[1] /\ accepted[2] /\ uid[1] = uid[2]
    /\ pc[1] = "receiving" /\ pc[2] = "receiving"
    /\ HoldsEntry(active_connections, 1)

\* C15: delivery addressed to a subject that has no entry in the manager
\* has no observable side effect: no step writes a payload to the channel
\* of a session whose subject has no entry, and such a step leaves the
\* registry unchanged.
C15_NoDeliveryToUnregistered ==
    [][\A c \in Chan :
          pc[c] = "send" /\ ~is_connected(active_connections, uid[c]) =>
              /\ sent'[c] = sent[c]
              /\ active_connections' = active_connections]_vars

\* C16: when the handling of a successfully persisted Create or Update
\* frame completes and the message's recipient has a channel registered in
\* the manager, the message has been written to that recipient's channel.
C16_PushToRecipient ==
    [][\A c \in Chan :
          /\ pc[c] = "send" /\ pc'[c] = "receiving"
          /\ is_connected(active_connections, StrOfInt(recv[c]))
          => LET d == active_connections[StrOfInt(recv[c])][1]
             IN  sent'[d] = Append(sent[d], send_message_text(cur[c]))]_vars

\* Session c has a frame in dispatch.
InDispatch(c) == pc[c] \in {"persist", "send"}

\* C17: within one session frames are dispatched one at a time: a session
\* reads a frame only from its receive loop with no frame of its own in
\* dispatch, and the frame in dispatch stays the one read last until its
\* persistence call and echo have completed or failed.
C17_SequentialDispatch ==
    [][\A c \in Chan :
          /\ ( nread' = nread + 1 /\ pc'[c] /= pc[c] =>
                  /\ pc[c] = "receiving"
                  /\ cur[c] = NoMessage
                  /\ pc'[c] \in {"persist", "crashed"} )
          /\ ( InDispatch(c) =>
                  /\ data'[c] = data[c]
                  /\ nread' = nread \/ pc'[c] = pc[c] )]_vars

\* Two connections each have a frame in dispatch at the same time.
C17_Witness ==
    /\ pc[1] = "send" /\ pc[2] = "persist"
    /\ sent[1] = <<>> /\ nread = 2

\* C18: every message row that a Create frame of a session opened on
\* /ws/{receiver} writes has receiver equal to that path parameter,
\* whatever receiver_id the envelope carried.
C18_ReceiverIsPathParameter ==
    \A c \in Chan : \A r \in tx[c].ins : r.receiver = recv[c]

\* A row was written whose envelope named another receiver than the path.
C18_Witness ==
    \E c \in Chan :
        /\ recv[c] = 1 /\ data[c].receiver_id = 2
        /\ pc[c] = "send"
        /\ \E r \in tx[c].ins : r.receiver = 1 /\ r.text = data[c].text

\* C19: every message whose Create frame was echoed to the sender is
\* durably recorded: once the session that created it has ended and its
\* database session is closed, a committed row carries the echoed text for
\* the session's receiver.
C19_EchoedCreateIsDurable ==
    \A c \in Chan :
        Terminated(c) =>
            \A i \in DOMAIN sent[c] :
                \E r \in committed : r.text = sent[c][i] /\ r.receiver = recv[c]

\* C20: every authenticated session has accepted the transport handshake
\* by the time it waits in receive_text for a frame, also when its subject
\* already had an entry in the manager when it was opened.
C20_AcceptBeforeRead ==
    \A c \in Chan : pc[c] = "receiving" => accepted[c]

\* C21: no subject is locked out: when an authenticated session is opened
\* for a subject all of whose earlier sessions have terminated, by whatever
\* edge, the new session goes on to manager.connect, where its handshake is
\* accepted and its entry is written before it enters the receive loop.
C21_NoLockout ==
    [][\A c \in Chan :
          /\ pc[c] = "idle" /\ pc'[c] \notin {"idle", "rejected"}
          /\ \A d \in Chan \ {c} : uid[d] = uid'[c] => Terminated(d)
          => pc'[c] = "accepting"]_vars

\* C22: every message row written through a websocket session has sender
\* equal to the subject id of the credential that authenticated the
\* session.
C22_SenderIsAuthenticatedSubject ==
    \A c \in Chan : \A r \in tx[c].ins : StrOfInt(r.sender) = uid[c]

\* The role values create_token writes into a token for the issuable roles.
C23_IssuableRoleValues == {UserRoleValue("user"), UserRoleValue("administrator")}

\* C23: for a validly signed, unexpired token that carries id, role and
\* is_superuser, with role the token value of an issuable role (user or
\* administrator), RefreshToken.create_token succeeds and issues a new
\* access+refresh pair.
C23_RefreshRoundTrip ==
    /\ C5_Decodable /\ ~C12_LacksRequiredField
    /\ tk.role \in C23_IssuableRoleValues
    /\ tres["refresh"] /= Uncalled
    => tres["refresh"] = "issued"

\* The access tokens login issues.
C24_LoginTokens == {check_authenticate(u, r) : u \in Users, r \in LoginRoles}

\* C24: an unexpired access token issued by login for a stored user whose
\* role is user or administrator passes check_permission(exclude=False)
\* with the allowed roles [user, administrator].
C24_LoginTokenPassesCheck ==
    /\ tk \in C24_LoginTokens /\ roleArg = WsRoles
    /\ tres["check"] /= Uncalled
    => tres["check"] = "pass"

\* C25: delivery follows persistence: a text is written to a session's
\* channel only by the send step of a frame whose persistence call returned
\* successfully (its row is in the session's transaction), and it is that
\* frame's text; when the persistence call fails nothing is written for the
\* frame, then or later.
C25_DeliveryFollowsPersistence ==
    [][\A c \in Chan :
          /\ ( sent'[c] /= sent[c] =>
                  /\ pc[c] = "send"
                  /\ sent'[c] = Append(sent[c], send_message_text(cur[c]))
                  /\ \E r \in tx[c].ins :
                        /\ r.text = cur[c].text
                        /\ r.sender = cur[c].sender_id
                        /\ r.receiver = cur[c].receiver_id )
          /\ ( pc[c] = "persist" /\ pc'[c] = "crashed" => sent'[c] = sent[c] )
          /\ ( cause[c] = "HTTPException: crud" => sent'[c] = sent[c] )]_vars

\* One frame was persisted and echoed, the next one failed in the
\* persistence call and nothing was written for it.
C25_Witness ==
    \E c \in Chan :
        /\ pc[c] = "crashed" /\ cause[c] = "HTTPException: crud"
        /\ data[c] = CreateFrame("hi", Null, 1, 2)
        /\ sent[c] = <<"hi">>

====
